---- MODULE Spec2Model ----
(***************************************************************************)
(* Model of the deadline / reminder engine of daemon-disqualifier          *)
(* (src/src/helpers/update-tasks.ts).                                      *)
(*                                                                         *)
(* Instants are whole minutes (the unit of the configured thresholds);     *)
(* luxon's fromISO / plus / diff / toJSDate are exact on such instants.    *)
(* GitHub is outside the program: what listEvents and issues.get answer    *)
(* is an input of each call of updateReminders, and either call may fail.  *)
(* The side-effecting collaborator calls (createComment, removeAssignees,  *)
(* repositories.upsert, repositories.delete) are taken to complete.        *)
(***************************************************************************)
EXTENDS Integers, Sequences, FiniteSets, TLC

\* ------------------------------------------------------------------ bounds
MaxTime == 3           \* last instant of the clock
MaxThreshold == 2      \* largest configured threshold (minutes)
MaxDeadline0 == 0      \* largest initial deadline
MaxEvents == 1         \* issue events one listEvents call returns
MaxComments == 2       \* comments per issue after which no pass is started

Urls == {1, 2}
Logins == {"alice", "bob"}

\* context.payload.issue.assignees: the logins assigned in the webhook payload
payload == {"alice"}

\* the assignees an issue can have when it is read
AssigneeLists == {{}, {"alice"}}

\* last_reminder is nullable in the repositories row
NoReminder == -1

VARIABLES
  store,       \* Watch Store: set of rows, at most one per url
  cfg,         \* context.config
  removed,     \* logins removed from each issue by removeAssignees
  comments,    \* number of reminder comments posted on each issue
  clock,       \* DateTime.now()
  pc,          \* "idle" or "loop": position of updateTasks
  queue,       \* items of watchedRepoList the loop has not reached yet
  result,      \* how the last pass ended: "none", "true", "false", "threw"
  last,        \* record of the most recent call of updateReminders
  signal,      \* one call of getAssigneesActivityForIssue: its inputs and result
  tasks        \* the evaluations started together by a concurrent pass

vars == <<store, cfg, removed, comments, clock, pc, queue, result, last, signal, tasks>>

\* ------------------------------------------------------------- Watch Store
Row(u, d, lc, lr) == [url |-> u, deadline |-> d, last_check |-> lc, last_reminder |-> lr]

HasRow(u) == \E r \in store : r.url = u

RowOf(u) == CHOOSE r \in store : r.url = u

\* supabase.repositories.upsert: keyed by url.  A call that passes no
\* lastReminder either leaves the stored column alone (keep) or nulls it.
Upsert(st, rec, keep) ==
  LET old == {r \in st : r.url = rec.url}
      lr  == IF rec.last_reminder # NoReminder THEN rec.last_reminder
             ELSE IF keep /\ old # {} THEN (CHOOSE r \in old : TRUE).last_reminder
             ELSE NoReminder
  IN (st \ old) \cup {Row(rec.url, rec.deadline, rec.last_check, lr)}

\* supabase.repositories.delete
Delete(st, u) == {r \in st : r.url # u}

\* supabase.repositories.get: the rows in some order
Orderings(st) ==
  {s \in [1..Cardinality(st) -> st] : \A i, j \in 1..Cardinality(st) : i # j => s[i] # s[j]}

\* ------------------------------------------------------------ collaborators
\* what octokit.rest.issues.listEvents can return at instant now: events of
\* the issue, each with an actor and a creation instant
EventLists(now) ==
  UNION {[1..n -> [actor : Logins, created_at : 0..now]] : n \in 0..MaxEvents}

\* what octokit.issues.get can do: throw, or return the issue with its assignees
IssueResponses ==
  {[throws |-> TRUE, assignees |-> {}]} \cup {[throws |-> FALSE, assignees |-> a] : a \in AssigneeLists}

\* null, as getGithubIssue returns it
Null == [isNull |-> TRUE, assignees |-> {}]

\* getGithubIssue: data of the issue, or null when the call throws
getGithubIssue(issue, resp) ==
  IF resp.throws THEN Null
  ELSE [isNull |-> FALSE, assignees |-> resp.assignees]

\* getAssigneesActivityForIssue: the events whose actor is an assignee of the
\* payload issue and that were created at or after last_check
getAssigneesActivityForIssue(issue, evs) ==
  SelectSeq(evs, LAMBDA o : o.actor \in payload /\ o.created_at >= issue.last_check)

\* variant: the comment is posted also when the issue has no assignees
remindAssignees_emptyIsSuccess(issue, resp) ==
  LET githubIssue == getGithubIssue(issue, resp)
  IN IF githubIssue.isNull
     THEN [ret |-> FALSE, logins |-> {}]
     ELSE [ret |-> TRUE, logins |-> githubIssue.assignees]

\* remindAssignees: the logins mentioned in the posted comment; none: no comment
remindAssignees(issue, resp) ==
  LET githubIssue == getGithubIssue(issue, resp)
  IN IF githubIssue.isNull \/ githubIssue.assignees = {}
     THEN [ret |-> FALSE, logins |-> {}]
     ELSE [ret |-> TRUE, logins |-> githubIssue.assignees]

\* variant: an issue that could not be read counts as unassigned with success
removeIdleAssignees_nullIsSuccess(issue, resp) ==
  LET githubIssue == getGithubIssue(issue, resp)
  IN IF ~githubIssue.isNull /\ githubIssue.assignees = {}
     THEN [ret |-> FALSE, logins |-> {}]
     ELSE [ret |-> TRUE, logins |-> githubIssue.assignees]

\* removeIdleAssignees: the logins removed from the issue
removeIdleAssignees(issue, resp) ==
  LET githubIssue == getGithubIssue(issue, resp)
  IN IF githubIssue.isNull \/ githubIssue.assignees = {}
     THEN [ret |-> FALSE, logins |-> {}]
     ELSE [ret |-> TRUE, logins |-> githubIssue.assignees]

\* ------------------------------------------------------------------ effects
\* What one call did: tag of the branch taken, rows upserted, whether the row
\* was deleted, number of comments posted, logins removed from the issue,
\* whether the branch read the GitHub issue.
Eff(tag, ups, del, com, rem) ==
  [tag |-> tag, ups |-> ups, del |-> del, comment |-> com, remove |-> rem,
   read |-> tag \in {"unassigned", "unassign_no_assignees", "reminded", "remind_no_assignees"}]

\* variant: the threshold guard reads < 0, so zero no longer disables
unassignUserFromIssue_zeroFires(issue, resp) ==
  IF cfg.unassignUserThreshold < 0
  THEN Eff("unassign_disabled", {}, FALSE, 0, {})
  ELSE LET r == removeIdleAssignees(issue, resp)
       IN IF r.ret
          THEN Eff("unassigned", {}, TRUE, 0, r.logins)
          ELSE Eff("unassign_no_assignees", {}, FALSE, 0, {})

\* variant: the row is deleted whatever removeIdleAssignees returns
unassignUserFromIssue_alwaysDeletes(issue, resp) ==
  IF cfg.unassignUserThreshold <= 0
  THEN Eff("unassign_disabled", {}, FALSE, 0, {})
  ELSE LET r == removeIdleAssignees(issue, resp)
       IN IF r.ret
          THEN Eff("unassigned", {}, TRUE, 0, r.logins)
          ELSE Eff("unassign_no_assignees", {}, TRUE, 0, {})

\* variant: the assignees are removed but the row is left in the store
unassignUserFromIssue_neverDeletes(issue, resp) ==
  IF cfg.unassignUserThreshold <= 0
  THEN Eff("unassign_disabled", {}, FALSE, 0, {})
  ELSE LET r == removeIdleAssignees(issue, resp)
       IN IF r.ret
          THEN Eff("unassigned", {}, FALSE, 0, r.logins)
          ELSE Eff("unassign_no_assignees", {}, FALSE, 0, {})

unassignUserFromIssue(issue, resp) ==
  IF cfg.unassignUserThreshold <= 0
  THEN Eff("unassign_disabled", {}, FALSE, 0, {})
  ELSE LET r == removeIdleAssignees(issue, resp)
       IN IF r.ret
          THEN Eff("unassigned", {}, TRUE, 0, r.logins)
          ELSE Eff("unassign_no_assignees", {}, FALSE, 0, {})

\* variant: last_reminder is not consulted
remindAssigneesForIssue_ignoresLastReminder(issue, now, resp) ==
  IF cfg.sendRemindersThreshold <= 0
  THEN Eff("remind_disabled", {}, FALSE, 0, {})
  ELSE IF remindAssignees(issue, resp).ret
       THEN Eff("reminded", {Row(issue.url, issue.deadline, now, now)}, FALSE, 1, {})
       ELSE Eff("remind_no_assignees", {}, FALSE, 0, {})

\* variant: the upsert passes now as the deadline
remindAssigneesForIssue_movesDeadline(issue, now, resp) ==
  IF cfg.sendRemindersThreshold <= 0
  THEN Eff("remind_disabled", {}, FALSE, 0, {})
  ELSE IF issue.last_reminder # NoReminder
       THEN Eff("remind_already_sent", {}, FALSE, 0, {})
       ELSE IF remindAssignees(issue, resp).ret
            THEN Eff("reminded", {Row(issue.url, now, now, now)}, FALSE, 1, {})
            ELSE Eff("remind_no_assignees", {}, FALSE, 0, {})

\* now is the DateTime.now() of line 29, the minute of the one of line 54
remindAssigneesForIssue(issue, now, resp) ==
  IF cfg.sendRemindersThreshold <= 0
  THEN Eff("remind_disabled", {}, FALSE, 0, {})
  ELSE IF issue.last_reminder # NoReminder
       THEN Eff("remind_already_sent", {}, FALSE, 0, {})
       ELSE IF remindAssignees(issue, resp).ret
            THEN Eff("reminded", {Row(issue.url, issue.deadline, now, now)}, FALSE, 1, {})
            ELSE Eff("remind_no_assignees", {}, FALSE, 0, {})

\* variant: the reminder instant is tested before the disqualification instant
updateReminders_reminderFirst(issue, now, activity, resp) ==
  LET deadline == issue.deadline
      deadlineWithThreshold == deadline + cfg.unassignUserThreshold
      reminderWithThreshold == deadline + cfg.sendRemindersThreshold
  IN IF Len(activity) # 0
     THEN Eff("extend", {Row(issue.url, deadline + (now - issue.last_check), now, NoReminder)},
              FALSE, 0, {})
     ELSE IF now >= reminderWithThreshold
          THEN remindAssigneesForIssue(issue, now, resp)
          ELSE IF now >= deadlineWithThreshold
               THEN unassignUserFromIssue(issue, resp)
               ELSE Eff("nothing_to_do", {}, FALSE, 0, {})

\* variant: the thresholds are tested before the activity
updateReminders_thresholdsFirst(issue, now, activity, resp) ==
  LET deadline == issue.deadline
      deadlineWithThreshold == deadline + cfg.unassignUserThreshold
      reminderWithThreshold == deadline + cfg.sendRemindersThreshold
  IN IF now >= deadlineWithThreshold
     THEN unassignUserFromIssue(issue, resp)
     ELSE IF now >= reminderWithThreshold
          THEN remindAssigneesForIssue(issue, now, resp)
          ELSE IF Len(activity) # 0
               THEN Eff("extend", {Row(issue.url, deadline + (now - issue.last_check), now, NoReminder)},
                        FALSE, 0, {})
               ELSE Eff("nothing_to_do", {}, FALSE, 0, {})

\* variant: the new deadline is now, not the old deadline moved by timeDiff
updateReminders_deadlineIsNow(issue, now, activity, resp) ==
  LET deadline == issue.deadline
      deadlineWithThreshold == deadline + cfg.unassignUserThreshold
      reminderWithThreshold == deadline + cfg.sendRemindersThreshold
  IN IF Len(activity) # 0
     THEN Eff("extend", {Row(issue.url, now, now, NoReminder)}, FALSE, 0, {})
     ELSE IF now >= deadlineWithThreshold
          THEN unassignUserFromIssue(issue, resp)
          ELSE IF now >= reminderWithThreshold
               THEN remindAssigneesForIssue(issue, now, resp)
               ELSE Eff("nothing_to_do", {}, FALSE, 0, {})

\* variant: the last branch records the check (lastCheck: now)
updateReminders_noopWrites(issue, now, activity, resp) ==
  LET deadline == issue.deadline
      deadlineWithThreshold == deadline + cfg.unassignUserThreshold
      reminderWithThreshold == deadline + cfg.sendRemindersThreshold
  IN IF Len(activity) # 0
     THEN Eff("extend", {Row(issue.url, deadline + (now - issue.last_check), now, NoReminder)},
              FALSE, 0, {})
     ELSE IF now >= deadlineWithThreshold
          THEN unassignUserFromIssue(issue, resp)
          ELSE IF now >= reminderWithThreshold
               THEN remindAssigneesForIssue(issue, now, resp)
               ELSE Eff("nothing_to_do", {Row(issue.url, deadline, now, issue.last_reminder)},
                        FALSE, 0, {})

\* variant: the extension writes timeDiff where lastCheck: now belongs
updateReminders_lastCheckIsDiff(issue, now, activity, resp) ==
  LET deadline == issue.deadline
      deadlineWithThreshold == deadline + cfg.unassignUserThreshold
      reminderWithThreshold == deadline + cfg.sendRemindersThreshold
  IN IF Len(activity) # 0
     THEN LET timeDiff == now - issue.last_check
          IN Eff("extend", {Row(issue.url, deadline + timeDiff, timeDiff, NoReminder)},
                 FALSE, 0, {})
     ELSE IF now >= deadlineWithThreshold
          THEN unassignUserFromIssue(issue, resp)
          ELSE IF now >= reminderWithThreshold
               THEN remindAssigneesForIssue(issue, now, resp)
               ELSE Eff("nothing_to_do", {}, FALSE, 0, {})

\* variant: the thresholds are not added to the deadline
updateReminders_thresholdNotAdded(issue, now, activity, resp) ==
  LET deadline == issue.deadline
      deadlineWithThreshold == deadline
      reminderWithThreshold == deadline
  IN IF Len(activity) # 0
     THEN Eff("extend", {Row(issue.url, deadline + (now - issue.last_check), now, NoReminder)},
              FALSE, 0, {})
     ELSE IF now >= deadlineWithThreshold
          THEN unassignUserFromIssue(issue, resp)
          ELSE IF now >= reminderWithThreshold
               THEN remindAssigneesForIssue(issue, now, resp)
               ELSE Eff("nothing_to_do", {}, FALSE, 0, {})

\* variant: the deadline moves by now, not by now - lastCheck
updateReminders_addsNow(issue, now, activity, resp) ==
  LET deadline == issue.deadline
      deadlineWithThreshold == deadline + cfg.unassignUserThreshold
      reminderWithThreshold == deadline + cfg.sendRemindersThreshold
  IN IF Len(activity) # 0
     THEN Eff("extend", {Row(issue.url, deadline + now, now, NoReminder)}, FALSE, 0, {})
     ELSE IF now >= deadlineWithThreshold
          THEN unassignUserFromIssue(issue, resp)
          ELSE IF now >= reminderWithThreshold
               THEN remindAssigneesForIssue(issue, now, resp)
               ELSE Eff("nothing_to_do", {}, FALSE, 0, {})

\* activity is what the call of getAssigneesActivityForIssue returned
updateReminders(issue, now, activity, resp) ==
  LET deadline == issue.deadline
      deadlineWithThreshold == deadline + cfg.unassignUserThreshold
      reminderWithThreshold == deadline + cfg.sendRemindersThreshold
  IN IF Len(activity) # 0
     THEN LET lastCheck == issue.last_check
              timeDiff == now - lastCheck
              newDeadline == deadline + timeDiff
          IN Eff("extend", {Row(issue.url, newDeadline, now, NoReminder)}, FALSE, 0, {})
     ELSE IF now >= deadlineWithThreshold
          THEN unassignUserFromIssue(issue, resp)
          ELSE IF now >= reminderWithThreshold
               THEN remindAssigneesForIssue(issue, now, resp)
               ELSE Eff("nothing_to_do", {}, FALSE, 0, {})

\* -------------------------------------------------------------------- state
NoCall ==
  [url |-> 0, now |-> 0, row |-> Row(0, 0, 0, NoReminder), activity |-> FALSE,
   githubIssue |-> Null, eff |-> Eff("none", {}, FALSE, 0, {})]

\* no call of getAssigneesActivityForIssue is being looked at
NoSignal == [stage |-> "none", last_check |-> 0, evs |-> <<>>, assignees |-> {}, activity |-> <<>>]

\* no concurrent pass has started
NoTasks == [started |-> FALSE]

InitCore ==
  /\ store \in {st \in SUBSET {Row(u, d, 0, NoReminder) : u \in Urls, d \in 0..MaxDeadline0} :
                  \A u \in Urls : Cardinality({r \in st : r.url = u}) = 1}
  /\ cfg \in [unassignUserThreshold : 0..MaxThreshold, sendRemindersThreshold : 0..MaxThreshold]
  /\ removed = [u \in Urls |-> {}]
  /\ comments = [u \in Urls |-> 0]
  /\ clock = 0
  /\ pc = "idle"
  /\ queue = <<>>
  /\ result = "none"
  /\ last = NoCall

Init ==
  /\ InitCore
  /\ signal = NoSignal
  /\ tasks = NoTasks

\* ------------------------------------------------------------- environment
\* time passes
Tick ==
  /\ clock < MaxTime
  /\ clock' = clock + 1
  /\ UNCHANGED <<store, cfg, removed, comments, pc, queue, result, last, signal, tasks>>

\* ------------------------------------------------------------------ driver
\* updateTasks up to the loop: fetch the list; return false when it is empty
updateTasks ==
  /\ pc = "idle"
  /\ \A u \in Urls : comments[u] < MaxComments
  /\ \E watchedRepoList \in Orderings(store) :
       /\ queue' = watchedRepoList
       /\ IF Len(watchedRepoList) = 0
          THEN pc' = "idle" /\ result' = "false"
          ELSE pc' = "loop" /\ result' = "none"
  /\ UNCHANGED <<store, cfg, removed, comments, clock, last, signal, tasks>>

\* the state after updateReminders(context, watchedIssue) ran at instant now
\* with the given answers of the collaborators; last keeps the row the call
\* was given, whether it saw activity, the issue it read (if it read it) and
\* what it did
Call(watchedIssue, now, activity, resp, keep) ==
  LET eff == updateReminders(watchedIssue, now, activity, resp)
      st1 == IF eff.ups = {} THEN store
             ELSE Upsert(store, CHOOSE r \in eff.ups : TRUE, keep)
  IN [store |-> IF eff.del THEN Delete(st1, watchedIssue.url) ELSE st1,
      removed |-> [removed EXCEPT ![watchedIssue.url] = @ \cup eff.remove],
      comments |-> [comments EXCEPT ![watchedIssue.url] = @ + eff.comment],
      last |-> [url |-> watchedIssue.url, now |-> now, row |-> watchedIssue,
                activity |-> Len(activity) # 0,
                githubIssue |-> IF eff.read THEN getGithubIssue(watchedIssue, resp) ELSE Null,
                eff |-> eff]]

\* one iteration of the loop of updateTasks whose listEvents call succeeds
LoopBody ==
  /\ pc = "loop"
  /\ queue # <<>>
  /\ \E c \in {Call(Head(queue), clock, activity, resp, keep) :
                 activity \in {getAssigneesActivityForIssue(Head(queue), evs) : evs \in EventLists(clock)},
                 resp \in IssueResponses, keep \in BOOLEAN} :
       /\ store' = c.store
       /\ removed' = c.removed
       /\ comments' = c.comments
       /\ last' = c.last
  /\ queue' = Tail(queue)
  /\ IF Len(queue) = 1
     THEN pc' = "idle" /\ result' = "true"
     ELSE pc' = "loop" /\ result' = "none"
  /\ UNCHANGED <<cfg, clock, signal, tasks>>

\* one iteration whose listEvents call throws: the rejection leaves
\* updateReminders and then updateTasks, which has no try / catch
LoopBodyThrows ==
  /\ pc = "loop"
  /\ queue # <<>>
  /\ queue' = Tail(queue)
  /\ pc' = "idle"
  /\ result' = "threw"
  /\ last' = [NoCall EXCEPT !.url = Head(queue).url, !.now = clock,
                            !.row = Head(queue),
                            !.eff = Eff("threw", {}, FALSE, 0, {})]
  /\ UNCHANGED <<store, cfg, removed, comments, clock, signal, tasks>>

Next ==
  \/ Tick
  \/ updateTasks
  \/ LoopBody
  \/ LoopBodyThrows

Spec == Init /\ [][Next]_vars

\* ------------------------------------------------------- undisturbed passes
\* one iteration of the loop in which no collaborator call fails, listEvents
\* returns nothing attributable to the assignees, and the issue has assignees
LoopBodyQuiet ==
  /\ pc = "loop"
  /\ queue # <<>>
  /\ \E c \in {Call(Head(queue), clock, <<>>, resp, keep) :
                 resp \in {r \in IssueResponses : ~r.throws /\ r.assignees # {}},
                 keep \in BOOLEAN} :
       /\ store' = c.store
       /\ removed' = c.removed
       /\ comments' = c.comments
       /\ last' = c.last
  /\ queue' = Tail(queue)
  /\ IF Len(queue) = 1
     THEN pc' = "idle" /\ result' = "true"
     ELSE pc' = "loop" /\ result' = "none"
  /\ UNCHANGED <<cfg, clock, signal, tasks>>

NextLive ==
  \/ Tick
  \/ updateTasks
  \/ LoopBodyQuiet

\* time advances, passes keep starting, and a started pass runs on
SpecLive ==
  /\ Init
  /\ [][NextLive]_vars
  /\ WF_vars(Tick)
  /\ WF_vars(updateTasks)
  /\ WF_vars(LoopBodyQuiet)

\* --------------------------------------------------------- concurrent pass
\* watchUserActivity starts the evaluations of a pass together (Promise.all
\* over map(async ...)); each runs updateReminders on its own row and yields
\* at every await: listEvents, issues.get, createComment / removeAssignees,
\* upsert / delete.  A task keeps the row it was given, the instant it read
\* and what updateReminders has decided from the answers received so far.
\* A pass is short against the one-minute grain of the clock, so time moves
\* between passes only.
NoAnswer == [throws |-> TRUE]

Task(p, issue, now) ==
  [pc |-> p, issue |-> issue, now |-> now, eff |-> Eff("none", {}, FALSE, 0, {}), keep |-> FALSE]

Off == Task("off", Row(0, 0, 0, NoReminder), 0)

Started == {u \in Urls : tasks.started /\ tasks.t[u].pc # "off"}

InFlight == {u \in Started : tasks.t[u].pc # "done"}

\* what the evaluation of u does, from the answers it has received
TaskEff(u) == tasks.t[u].eff

\* the calls are started in one synchronous sweep; each reads the clock and
\* stops at its first await
ParStart ==
  /\ pc = "idle"
  /\ InFlight = {}
  /\ store # {}
  /\ \A u \in Urls : comments[u] < MaxComments
  /\ tasks' = [started |-> TRUE, overlap |-> FALSE,
               store0 |-> store, removed0 |-> removed, comments0 |-> comments,
               t |-> [u \in Urls |-> IF HasRow(u) THEN Task("fetch", RowOf(u), clock) ELSE Off]]
  /\ UNCHANGED <<store, cfg, removed, comments, clock, pc, queue, result, last, signal>>

\* listEvents answers: the branch is chosen, and the task stops at the next
\* await of that branch, if it has one
ParFetch(u) ==
  /\ u \in InFlight
  /\ tasks.t[u].pc = "fetch"
  /\ \E activity \in {getAssigneesActivityForIssue(tasks.t[u].issue, evs) :
                         evs \in EventLists(tasks.t[u].now)} :
       LET t == tasks.t[u]
           eff == updateReminders(t.issue, t.now, activity, NoAnswer)
       IN tasks' = [tasks EXCEPT
                      !.t[u].eff = eff,
                      !.t[u].pc = IF eff.read THEN "read"
                                  ELSE IF eff.ups # {} \/ eff.del THEN "write"
                                  ELSE "done"]
  /\ UNCHANGED <<store, cfg, removed, comments, clock, pc, queue, result, last, signal>>

\* issues.get answers (getGithubIssue): without assignees the branch ends;
\* only the branches taken without activity read the issue
ParRead(u) ==
  /\ u \in InFlight
  /\ tasks.t[u].pc = "read"
  /\ \E resp \in IssueResponses :
       LET t == tasks.t[u]
           eff == updateReminders(t.issue, t.now, <<>>, resp)
       IN tasks' = [tasks EXCEPT
                      !.t[u].eff = eff,
                      !.t[u].pc = IF eff.comment > 0 \/ eff.remove # {} THEN "act" ELSE "done"]
  /\ UNCHANGED <<store, cfg, removed, comments, clock, pc, queue, result, last, signal>>

\* createComment or removeAssignees on the task's own issue
ParAct(u) ==
  /\ u \in InFlight
  /\ tasks.t[u].pc = "act"
  /\ comments' = [comments EXCEPT ![u] = @ + TaskEff(u).comment]
  /\ removed' = [removed EXCEPT ![u] = @ \cup TaskEff(u).remove]
  /\ tasks' = [tasks EXCEPT !.t[u].pc = "write"]
  /\ UNCHANGED <<store, cfg, clock, pc, queue, result, last, signal>>

\* what a task's store call makes of a store
Persist(st, u, eff, keep) ==
  LET st1 == IF eff.ups = {} THEN st ELSE Upsert(st, CHOOSE r \in eff.ups : TRUE, keep)
  IN IF eff.del THEN Delete(st1, u) ELSE st1

\* variant: the task writes back the list fetched when the pass started,
\* with its own row changed
ParWrite_wholeList(u) ==
  /\ u \in InFlight
  /\ tasks.t[u].pc = "write"
  /\ \E keep \in (IF TaskEff(u).ups = {} THEN {FALSE} ELSE BOOLEAN) :
       /\ store' = Persist(tasks.store0, u, TaskEff(u), keep)
       /\ tasks' = [tasks EXCEPT
                      !.t[u].keep = keep,
                      !.t[u].pc = "done",
                      !.overlap = @ \/ InFlight \ {u} # {}]
  /\ UNCHANGED <<cfg, removed, comments, clock, pc, queue, result, last, signal>>

\* upsert or delete, keyed by the url of the row the task was given
ParWrite(u) ==
  /\ u \in InFlight
  /\ tasks.t[u].pc = "write"
  /\ \E keep \in (IF TaskEff(u).ups = {} THEN {FALSE} ELSE BOOLEAN) :
       /\ store' = Persist(store, u, TaskEff(u), keep)
       /\ tasks' = [tasks EXCEPT
                      !.t[u].keep = keep,
                      !.t[u].pc = "done",
                      !.overlap = @ \/ InFlight \ {u} # {}]
  /\ UNCHANGED <<cfg, removed, comments, clock, pc, queue, result, last, signal>>

TickIdle == InFlight = {} /\ Tick

NextPar ==
  \/ TickIdle
  \/ ParStart
  \/ \E u \in Urls : ParFetch(u)
  \/ \E u \in Urls : ParRead(u)
  \/ \E u \in Urls : ParAct(u)
  \/ \E u \in Urls : ParWrite(u)

SpecPar == Init /\ [][NextPar]_vars

\* the same evaluations one after the other, as the loop of updateTasks runs
\* them: each on the row of the list, deciding what the task decided
RECURSIVE SeqEval(_, _)
SeqEval(acc, order) ==
  IF order = <<>> THEN acc
  ELSE LET u == Head(order).url
           eff == TaskEff(u)
       IN SeqEval([store |-> Persist(acc.store, u, eff, tasks.t[u].keep),
                   removed |-> [acc.removed EXCEPT ![u] = @ \cup eff.remove],
                   comments |-> [acc.comments EXCEPT ![u] = @ + eff.comment]],
                  Tail(order))

\* --------------------------------------------------------- activity signal
\* getAssigneesActivityForIssue on its own: an item with some last_check,
\* the events listEvents returns for it, and the assignees the item has on
\* GitHub at that moment
InitSignal ==
  /\ InitCore
  /\ tasks = NoTasks
  /\ signal \in [stage : {"input"}, last_check : 0..MaxTime, evs : EventLists(MaxTime),
                  assignees : SUBSET Logins, activity : {<<>>}]

FetchActivity ==
  /\ signal.stage = "input"
  /\ signal' = [signal EXCEPT
                  !.stage = "done",
                  !.activity = getAssigneesActivityForIssue(
                                 Row(1, 0, signal.last_check, NoReminder), signal.evs)]
  /\ UNCHANGED <<store, cfg, removed, comments, clock, pc, queue, result, last, tasks>>

NextSignal == FetchActivity

SpecSignal == InitSignal /\ [][NextSignal]_vars

\* ------------------------------------------------------------------ claims
\* updateReminders ran to its end in the most recent call
Called == last.eff.tag \notin {"none", "threw"}

DisqualifyInstant(row) == row.deadline + cfg.unassignUserThreshold

ReminderInstant(row) == row.deadline + cfg.sendRemindersThreshold

\* the most recent call read the issue and found assignees on it
AssigneesFound == ~last.githubIssue.isNull /\ last.githubIssue.assignees # {}

UnassignInvoked == last.eff.tag \in {"unassigned", "unassign_no_assignees"}

ReminderInvoked == last.eff.tag \in {"reminded", "remind_no_assignees"}

\* C1: a call without activity at or past both instants (both thresholds
\* positive) invokes the unassignment and posts no comment, reminded before
\* or not; when assignees are found the row is deleted.
C1_DisqualifyBeforeReminder ==
  ( /\ Called
    /\ ~last.activity
    /\ cfg.unassignUserThreshold > 0
    /\ cfg.sendRemindersThreshold > 0
    /\ last.now >= DisqualifyInstant(last.row)
    /\ last.now >= ReminderInstant(last.row) )
  => /\ UnassignInvoked
     /\ last.eff.comment = 0
     /\ AssigneesFound => (~HasRow(last.url) /\ removed[last.url] # {})

C1_Witness ==
  /\ Called
  /\ ~last.activity
  /\ cfg.unassignUserThreshold > 0
  /\ cfg.sendRemindersThreshold > 0
  /\ last.now >= DisqualifyInstant(last.row)
  /\ last.now >= ReminderInstant(last.row)
  /\ last.row.last_reminder # NoReminder
  /\ AssigneesFound
  /\ ~HasRow(last.url)

\* C2: with a disqualification threshold of zero no row is ever deleted and
\* no assignee ever removed; with a reminder threshold of zero no comment is
\* ever posted and no last_reminder ever set.
C2_ZeroDisables ==
  /\ cfg.unassignUserThreshold = 0 =>
       \A u \in Urls : HasRow(u) /\ removed[u] = {}
  /\ cfg.sendRemindersThreshold = 0 =>
       \A u \in Urls : comments[u] = 0 /\ (HasRow(u) => RowOf(u).last_reminder = NoReminder)

C2_Witness ==
  /\ cfg.unassignUserThreshold = 0
  /\ cfg.sendRemindersThreshold = 0
  /\ last.eff.tag = "unassign_disabled"
  /\ last.now >= last.row.deadline + MaxThreshold
  /\ HasRow(last.url)

\* C3: with the disqualification disabled (threshold zero), a positive
\* reminder threshold, no activity, no reminder sent yet and now at or past
\* the reminder instant, the call goes on to the reminder dispatch, and when
\* assignees are found a comment is posted and last_reminder set.
C3_ZeroFallsThroughToReminder ==
  ( /\ Called
    /\ ~last.activity
    /\ cfg.unassignUserThreshold = 0
    /\ cfg.sendRemindersThreshold > 0
    /\ last.row.last_reminder = NoReminder
    /\ last.now >= ReminderInstant(last.row) )
  => /\ ReminderInvoked
     /\ AssigneesFound =>
          /\ last.eff.comment = 1
          /\ HasRow(last.url)
          /\ RowOf(last.url).last_reminder # NoReminder

\* C4: after a call that saw activity the stored deadline is the old one plus
\* (now - old lastCheck) and the stored lastCheck is now; the deadline grows
\* strictly when now > old lastCheck.
C4_ExtendShiftsDeadline ==
  (Called /\ last.activity)
  => /\ HasRow(last.url)
     /\ RowOf(last.url).deadline = last.row.deadline + (last.now - last.row.last_check)
     /\ RowOf(last.url).last_check = last.now
     /\ last.now > last.row.last_check => RowOf(last.url).deadline > last.row.deadline

C4_Witness ==
  /\ Called
  /\ last.activity
  /\ last.now > last.row.last_check
  /\ last.row.deadline # last.row.last_check
  /\ RowOf(last.url).deadline = last.row.deadline + (last.now - last.row.last_check)

\* C5: a call that saw activity posts no comment, removes no assignee and
\* keeps the row, also at or past both instants.
C5_ActivityTakesPrecedence ==
  (Called /\ last.activity)
  => /\ last.eff.comment = 0
     /\ last.eff.remove = {}
     /\ ~last.eff.del
     /\ HasRow(last.url)

C5_Witness ==
  /\ Called
  /\ last.activity
  /\ cfg.unassignUserThreshold > 0
  /\ cfg.sendRemindersThreshold > 0
  /\ last.now >= DisqualifyInstant(last.row)
  /\ last.now >= ReminderInstant(last.row)
  /\ HasRow(last.url)

\* C6: a call in ReminderDue (reminder instant <= now < disqualification
\* instant, no last_reminder, no activity) dispatches the reminder, and with
\* assignees found posts exactly one comment and sets last_reminder; a later
\* call with last_reminder set, no activity and now before the
\* disqualification instant posts nothing.
C6_OneReminderPerCycle ==
  /\ ( /\ Called
       /\ ~last.activity
       /\ cfg.sendRemindersThreshold > 0
       /\ ReminderInstant(last.row) <= last.now
       /\ last.now < DisqualifyInstant(last.row)
       /\ last.row.last_reminder = NoReminder )
     => /\ ReminderInvoked
        /\ AssigneesFound =>
             /\ last.eff.comment = 1
             /\ HasRow(last.url)
             /\ RowOf(last.url).last_reminder = last.now
  /\ ( /\ Called
       /\ ~last.activity
       /\ last.row.last_reminder # NoReminder
       /\ last.now < DisqualifyInstant(last.row) )
     => last.eff.comment = 0

C6_Witness ==
  /\ Called
  /\ ~last.activity
  /\ last.eff.tag = "remind_already_sent"
  /\ last.now < DisqualifyInstant(last.row)
  /\ comments[last.url] = 1
  /\ RowOf(last.url).last_reminder # NoReminder

\* C7: a row is absent from the store exactly when the assignees of its
\* issue were removed by an unassignment; a call that ends any other way
\* leaves its row in the store.
C7_DeletedIffUnassigned ==
  /\ \A u \in Urls : ~HasRow(u) <=> removed[u] # {}
  /\ Called => (~HasRow(last.url) <=> last.eff.tag = "unassigned")
  /\ Called => (last.eff.tag = "unassigned" <=> last.eff.remove # {})

C7_Witness ==
  /\ last.eff.tag = "unassign_no_assignees"
  /\ HasRow(last.url)
  /\ \E u \in Urls : ~HasRow(u) /\ removed[u] # {}

\* C8: a call without activity before both instants does nothing: no upsert,
\* no delete, no comment, no removal, and the row is as it was.
C8_NothingToDo ==
  ( /\ Called
    /\ ~last.activity
    /\ last.now < ReminderInstant(last.row)
    /\ last.now < DisqualifyInstant(last.row) )
  => /\ last.eff.ups = {}
     /\ ~last.eff.del
     /\ last.eff.comment = 0
     /\ last.eff.remove = {}
     /\ HasRow(last.url)
     /\ RowOf(last.url) = last.row

C8_Witness ==
  /\ Called
  /\ ~last.activity
  /\ last.now > last.row.last_check
  /\ last.now < ReminderInstant(last.row)
  /\ last.now < DisqualifyInstant(last.row)
  /\ RowOf(last.url) = last.row

\* C9: when a pass has ended, every item of the fetched list was evaluated,
\* also when the evaluation of one of them failed.
C9_ErrorsIsolatedPerItem ==
  pc = "idle" => queue = <<>>

\* C10: the stored lastCheck of an item never decreases; a write sets it to
\* the current now, and a step that does not write leaves it as it was.
C10_LastCheckMonotone ==
  [][\A u \in Urls :
       (HasRow(u) /\ HasRow(u)') =>
         /\ RowOf(u)'.last_check >= RowOf(u).last_check
         /\ RowOf(u)' # RowOf(u) => RowOf(u)'.last_check = clock
         /\ RowOf(u)'.last_check <= clock']_vars

C10_Witness ==
  /\ Called
  /\ last.eff.ups # {}
  /\ last.row.last_check > 0
  /\ HasRow(last.url)
  /\ RowOf(last.url).last_check > last.row.last_check

\* C11: an extension starts a new reminder cycle: a call without activity
\* whose row was extended after its reminder (last_check later than
\* last_reminder) and that is at or past the reminder instant and before the
\* disqualification instant dispatches a reminder again.
C11_ExtensionResetsReminderCycle ==
  ( /\ Called
    /\ ~last.activity
    /\ cfg.sendRemindersThreshold > 0
    /\ ReminderInstant(last.row) <= last.now
    /\ last.now < DisqualifyInstant(last.row)
    /\ last.row.last_reminder # NoReminder
    /\ last.row.last_check > last.row.last_reminder )
  => ReminderInvoked

\* C12: a call whose executor read the issue and found no assignees (or
\* could not read it) changes nothing: no comment, no removal, no upsert, no
\* delete, and the row stays in the store as it was.
C12_NoAssigneesNoChange ==
  (Called /\ last.eff.read /\ ~AssigneesFound)
  => /\ last.eff.comment = 0
     /\ last.eff.remove = {}
     /\ last.eff.ups = {}
     /\ ~last.eff.del
     /\ HasRow(last.url)
     /\ RowOf(last.url) = last.row

C12_Witness ==
  /\ Called
  /\ last.eff.tag = "remind_no_assignees"
  /\ ~last.githubIssue.isNull
  /\ last.githubIssue.assignees = {}
  /\ RowOf(last.url) = last.row
  /\ last.now > last.row.last_check

\* C13 as claimed: a failure of listEvents or of issues.get leaves the call
\* as a failure, and the call has written nothing.
C13_ResolverFailurePropagates ==
  /\ last.eff.tag = "threw" => (HasRow(last.url) /\ RowOf(last.url) = last.row)
  /\ (last.eff.read /\ last.githubIssue.isNull) =>
       /\ last.eff.tag = "threw"
       /\ HasRow(last.url)
       /\ RowOf(last.url) = last.row

\* C13 amended: a failure of listEvents leaves the call and the pass as a
\* failure; a failure of issues.get is caught and the call ends normally; in
\* both cases the step writes nothing: store, comments and removals are as
\* before.
C13_FailuresWriteNothing ==
  [][pc = "loop" =>
       /\ result' = "threw" =>
            (last'.eff.tag = "threw" /\ store' = store /\ comments' = comments /\ removed' = removed)
       /\ (last'.eff.read /\ last'.githubIssue.isNull) =>
            (result' # "threw" /\ last'.eff.tag # "threw"
             /\ store' = store /\ comments' = comments /\ removed' = removed)]_vars

C13_Witness ==
  /\ Called
  /\ last.eff.read
  /\ last.githubIssue.isNull
  /\ result = "true"
  /\ RowOf(last.url) = last.row

\* C15: a call that posted the reminder comment leaves the row with
\* last_reminder = now, last_check = now and the deadline it had.
C15_ReminderPersistsNow ==
  (Called /\ last.eff.comment = 1)
  => /\ HasRow(last.url)
     /\ RowOf(last.url) = Row(last.url, last.row.deadline, last.now, last.now)

C15_Witness ==
  /\ Called
  /\ last.eff.comment = 1
  /\ last.row.deadline > 0
  /\ last.now > last.row.deadline
  /\ RowOf(last.url).last_reminder = last.now

\* C17: assignees are removed and the row deleted only with a positive
\* disqualification threshold at or past the disqualification instant; a
\* comment is posted only with a positive reminder threshold, at or past the
\* reminder instant and before the disqualification instant.
C17_NoPrematureEscalation ==
  Called =>
    /\ (last.eff.remove # {} \/ last.eff.del \/ ~HasRow(last.url)) =>
         /\ cfg.unassignUserThreshold > 0
         /\ last.now >= DisqualifyInstant(last.row)
    /\ last.eff.comment > 0 =>
         /\ cfg.sendRemindersThreshold > 0
         /\ ReminderInstant(last.row) <= last.now
         /\ last.now < DisqualifyInstant(last.row)

C17_Witness ==
  /\ Called
  /\ last.eff.comment = 1
  /\ ReminderInstant(last.row) <= last.now
  /\ last.now < DisqualifyInstant(last.row)
  /\ \E u \in Urls : ~HasRow(u) /\ removed[u] # {}

\* C18: with 0 < disqualification threshold <= reminder threshold no comment
\* is ever posted.
C18_NoReminderWhenDisqualifyFirst ==
  (cfg.unassignUserThreshold > 0 /\ cfg.unassignUserThreshold <= cfg.sendRemindersThreshold)
  => \A u \in Urls : comments[u] = 0 /\ (HasRow(u) => RowOf(u).last_reminder = NoReminder)

C18_Witness ==
  /\ cfg.unassignUserThreshold > 0
  /\ cfg.unassignUserThreshold <= cfg.sendRemindersThreshold
  /\ Called
  /\ ~last.activity
  /\ last.now >= ReminderInstant(last.row)
  /\ last.eff.tag = "unassigned"
  /\ comments[last.url] = 0

\* C20: an extension keeps deadline - lastCheck; a row that was at or past
\* its disqualification instant at its old lastCheck is at or past the new
\* one right after the extension.
C20_ExtensionKeepsSlack ==
  (Called /\ last.activity)
  => /\ HasRow(last.url)
     /\ RowOf(last.url).deadline - last.now = last.row.deadline - last.row.last_check
     /\ last.row.last_check >= DisqualifyInstant(last.row) =>
          last.now >= DisqualifyInstant(RowOf(last.url))

C20_Witness ==
  /\ Called
  /\ last.activity
  /\ last.now > last.row.last_check
  /\ last.row.deadline - last.row.last_check < 0
  /\ RowOf(last.url).deadline - last.now = last.row.deadline - last.row.last_check

\* C16: the activity signal of an item holds exactly the returned events
\* whose actor is assigned to that item now and whose instant is at or after
\* the item's last_check.
C16_SignalIsAssigneeEventsSinceLastCheck ==
  signal.stage = "done" =>
    {signal.activity[i] : i \in 1..Len(signal.activity)}
      = {o \in {signal.evs[i] : i \in 1..Len(signal.evs)} :
           o.actor \in signal.assignees /\ o.created_at >= signal.last_check}

\* C19: with a positive disqualification threshold, assignees present, no
\* activity and no failing call, repeated passes under advancing time
\* eventually delete every row, and no item gets more than one reminder
\* comment on the way.
C19_EscalationCompletes ==
  /\ (cfg.unassignUserThreshold > 0) ~> (store = {})
  /\ [](cfg.unassignUserThreshold > 0 => \A u \in Urls : comments[u] <= 1)

C19_Witness ==
  /\ cfg.unassignUserThreshold > 0
  /\ store = {}
  /\ \E u \in Urls : comments[u] = 1 /\ removed[u] # {}

====
